---- MODULE Spec2Model ----
(***************************************************************************)
(* Model of the variable_streams package: BitValue, BitStream (in-memory,  *)
(* MSB-first), BitStreamReader and BitStreamWriter (buffered, over an      *)
(* external byte source / sink).                                           *)
(*                                                                         *)
(* Python integers are unbounded.  They are modelled as two's-complement   *)
(* vectors of IntBytes bytes (least significant byte first; the top bit of *)
(* the last byte is the sign and stands for every higher bit), wide enough *)
(* for every value a 128-bit operation can produce.  Bytes, bit counts and *)
(* cursors are ordinary integers.                                          *)
(***************************************************************************)
EXTENDS Integers, Sequences, FiniteSets, TLC

\* ------------------------------------------------------------------ bounds
IntBytes == 17        \* bytes of the vectors that stand for Python ints
MaxOps == 2           \* calls made on a BitStream after its start state
MaxTrips == 1         \* write / set_position / read round trips per behaviour
MaxFields == 2        \* fields written in one writer-to-reader transfer
MaxWriterOps == 3     \* calls made on a writer per behaviour
MaxGains == 2         \* unread bytes a source gains after its reader is exhausted

\* ------------------------------------------------- small-integer arithmetic
Min(a, b) == IF a < b THEN a ELSE b

Max(a, b) == IF a > b THEN a ELSE b

\* 1 << k for 0 <= k <= 8 (byte-sized shifts)
Pow2(k) == 2 ^ k

\* a & b and a | b on 4-bit halves, tabulated
AndNibble ==
  [a \in 0 .. 15 |-> [b \in 0 .. 15 |->
     LET bit(x, j) == (x \div Pow2(j)) % 2
     IN bit(a, 0) * bit(b, 0) + 2 * bit(a, 1) * bit(b, 1)
        + 4 * bit(a, 2) * bit(b, 2) + 8 * bit(a, 3) * bit(b, 3)]]

OrNibble == [a \in 0 .. 15 |-> [b \in 0 .. 15 |-> a + b - AndNibble[a][b]]]

\* a & b on bytes
BitAnd(a, b) == 16 * AndNibble[a \div 16][b \div 16] + AndNibble[a % 16][b % 16]

\* a | b on bytes
BitOr(a, b) == 16 * OrNibble[a \div 16][b \div 16] + OrNibble[a % 16][b % 16]

\* ------------------------------------------------------- Python integers
\* little-endian bytes of the two's-complement vector, as a sequence of
\* IntBytes bytes: x[1] holds bits 0..7
PyInt == [1 .. IntBytes -> 0 .. 255]

\* the vector whose byte j (counted from 0) is F(j)
RECURSIVE VecFrom(_, _)
VecFrom(F(_), j) == IF j = IntBytes THEN << >> ELSE <<F(j)>> \o VecFrom(F, j + 1)

Vec(F(_)) == VecFrom(F, 0)

\* x < 0
IsNeg(x) == x[IntBytes] >= 128

\* byte j of x, for any j >= 0 (sign extension above the vector)
Limb(x, j) == IF j < IntBytes THEN x[j + 1] ELSE IF IsNeg(x) THEN 255 ELSE 0

\* bit i of x: (x >> i) & 1
Bit(x, i) == (Limb(x, i \div 8) \div Pow2(i % 8)) % 2

Zero == Vec(LAMBDA j : 0)

\* the Python int k, for a small machine integer k (|k| < 2^23)
FromInt(k) == Vec(LAMBDA j : IF j < 3 THEN (k \div (256 ^ j)) % 256
                             ELSE IF k < 0 THEN 255 ELSE 0)

\* (1 << k) - 1
OnesMask(k) == Vec(LAMBDA j : IF 8 * j + 8 <= k THEN 255
                              ELSE IF 8 * j >= k THEN 0
                              ELSE Pow2(k - 8 * j) - 1)

\* 1 << k
OneShl(k) == Vec(LAMBDA j : IF j = k \div 8 THEN Pow2(k % 8) ELSE 0)

\* x >> s (arithmetic, as Python's)
ShiftRight(x, s) ==
  LET q == s \div 8
      r == s % 8
  IN Vec(LAMBDA j : ((Limb(x, j + q) + 256 * Limb(x, j + q + 1)) \div Pow2(r)) % 256)

\* x << s
ShiftLeft(x, s) ==
  LET q == s \div 8
      r == s % 8
      at(j) == IF j < 0 THEN 0 ELSE x[j + 1]
  IN Vec(LAMBDA j : (((at(j - q - 1) + 256 * at(j - q)) * Pow2(r)) \div 256) % 256)

\* x & y
IntAnd(x, y) == Vec(LAMBDA j : BitAnd(x[j + 1], y[j + 1]))

\* x | y
IntOr(x, y) == Vec(LAMBDA j : BitOr(x[j + 1], y[j + 1]))

\* x - y, byte by byte with borrow
RECURSIVE SubLimbs(_, _, _, _)
SubLimbs(x, y, j, borrow) ==
  IF j = IntBytes THEN << >>
  ELSE LET d == x[j + 1] - y[j + 1] - borrow
       IN <<d % 256>> \o SubLimbs(x, y, j + 1, IF d < 0 THEN 1 ELSE 0)

IntSub(x, y) == SubLimbs(x, y, 0, 0)

\* x < y (signed)
IntLess(x, y) ==
  LET D == {j \in 1 .. IntBytes : x[j] # y[j]}
      top(b) == IF b >= 128 THEN b - 256 ELSE b
  IN /\ D # {}
     /\ LET m == CHOOSE j \in D : \A i \in D : i <= j
        IN IF m = IntBytes THEN top(x[m]) < top(y[m]) ELSE x[m] < y[m]

\* (value & (((1 << k) - 1) << shift)) >> shift, a byte-sized field (k <= 8)
ExtractField(value, shift, k) ==
  LET q == shift \div 8
  IN ((Limb(value, q) + 256 * Limb(value, q + 1)) \div Pow2(shift % 8)) % Pow2(k)

\* result | (extracted << shift), extracted a byte-sized field
OrShifted(result, extracted, shift) ==
  LET q == shift \div 8
      e == extracted * Pow2(shift % 8)
      lo == [result EXCEPT ![q + 1] = BitOr(@, e % 256)]
  IN IF q + 2 <= IntBytes THEN [lo EXCEPT ![q + 2] = BitOr(@, e \div 256)] ELSE lo

\* ---------------------------------------------------------------- BitValue
WORD == 64           \* widest field of the 64-bit operations

WIDE == 128          \* widest field of the 128-bit operations and of a BitValue

\* variant: the unsigned range check admitting 2^bit_count itself
BitValue_init_loose(value, bit_count) ==
  LET is_signed == IsNeg(value)
      none == [err |-> "none", value |-> value, bit_count |-> bit_count,
               is_signed |-> is_signed]
      fail(e) == [err |-> e, value |-> Zero, bit_count |-> 0, is_signed |-> FALSE]
  IN IF bit_count <= 0 \/ bit_count > WIDE THEN fail("InvalidWidth")
     ELSE IF is_signed
       THEN LET min_value == IntSub(Zero, OneShl(bit_count - 1))
                max_value == OnesMask(bit_count - 1)
            IN IF IntLess(value, min_value) \/ IntLess(max_value, value)
                 THEN fail("ValueOutOfRange") ELSE none
       ELSE LET max_value == OneShl(bit_count)
            IN IF IsNeg(value) \/ IntLess(max_value, value)
                 THEN fail("ValueOutOfRange") ELSE none

\* BitValue.__init__ with an explicit bit_count: [err, value, bit_count, is_signed]
BitValue_init(value, bit_count) ==
  LET is_signed == IsNeg(value)
      none == [err |-> "none", value |-> value, bit_count |-> bit_count,
               is_signed |-> is_signed]
      fail(e) == [err |-> e, value |-> Zero, bit_count |-> 0, is_signed |-> FALSE]
  IN IF bit_count <= 0 \/ bit_count > WIDE THEN fail("InvalidWidth")
     ELSE IF is_signed
       THEN LET min_value == IntSub(Zero, OneShl(bit_count - 1))
                max_value == OnesMask(bit_count - 1)
            IN IF IntLess(value, min_value) \/ IntLess(max_value, value)
                 THEN fail("ValueOutOfRange") ELSE none
       ELSE LET max_value == OnesMask(bit_count)
            IN IF IsNeg(value) \/ IntLess(max_value, value)
                 THEN fail("ValueOutOfRange") ELSE none

\* int.bit_length(): the number of bits of abs(x)
BitLength(x) ==
  LET a == IF IsNeg(x) THEN IntSub(Zero, x) ELSE x
      S == {i \in 0 .. (8 * IntBytes - 1) : Bit(a, i) = 1}
  IN IF S = {} THEN 0 ELSE (CHOOSE i \in S : \A j \in S : j <= i) + 1

\* BitValue.__init__ with bit_count omitted (None)
BitValue_init_default(value) ==
  BitValue_init(value, IF IsNeg(value) THEN BitLength(value) + 1
                       ELSE Max(1, BitLength(value)))

\* --------------------------------------------------------------- BitStream
\* A BitStream is [buffer, byte_pos, bit_pos, bit_length]; buffer is the
\* bytearray as a sequence (buffer[i + 1] is Python's _buffer[i]).
\* Every operation returns [s, err, val]: the object afterwards, the error
\* raised ("none" when the call returns) and the value returned.

BitStream_init(data) ==
  [buffer |-> data, byte_pos |-> 0, bit_pos |-> 0, bit_length |-> Len(data) * 8]

BitStream_position(s) == s.byte_pos * 8 + s.bit_pos

BitStream_length(s) == s.bit_length

BitStream_is_eof(s) == BitStream_position(s) >= s.bit_length

Ret(s, err, val) == [s |-> s, err |-> err, val |-> val]

\* variant: set_position without the bound check
BitStream_set_position_unchecked(s, position) ==
  Ret([s EXCEPT !.byte_pos = position \div 8, !.bit_pos = position % 8],
      "none", Zero)

\* variant: set_position refusing the position one past the last bit
BitStream_set_position_strict(s, position) ==
  IF position >= s.bit_length THEN Ret(s, "EndOfStream", Zero)
  ELSE Ret([s EXCEPT !.byte_pos = position \div 8, !.bit_pos = position % 8],
           "none", Zero)

BitStream_set_position(s, position) ==
  IF position > s.bit_length THEN Ret(s, "EndOfStream", Zero)
  ELSE Ret([s EXCEPT !.byte_pos = position \div 8, !.bit_pos = position % 8],
           "none", Zero)

BitStream_reset(s) == Ret([s EXCEPT !.byte_pos = 0, !.bit_pos = 0], "none", Zero)

BitStream_from_bytes(s, data) == Ret(BitStream_init(data), "none", Zero)

\* variant: the read loop placing each group of bits above the earlier ones
RECURSIVE BitStream_read_loop_lsb(_, _, _, _)
BitStream_read_loop_lsb(s, bit_count, result, bits_read) ==
  IF bits_read >= bit_count THEN Ret(s, "none", result)
  ELSE IF s.byte_pos >= Len(s.buffer)
    THEN IF bits_read = 0 THEN Ret(s, "EndOfStream", Zero)
         ELSE Ret(s, "none", result)
    ELSE LET current_byte == s.buffer[s.byte_pos + 1]
             bits_left_in_byte == 8 - s.bit_pos
             bits_to_read == Min(bit_count - bits_read, bits_left_in_byte)
             mask == Pow2(bits_to_read) - 1
             shift == bits_left_in_byte - bits_to_read
             extracted_bits == BitAnd(current_byte \div Pow2(shift), mask)
             result2 == OrShifted(result, extracted_bits, bits_read)
             bp == s.bit_pos + bits_to_read
             s2 == IF bp = 8 THEN [s EXCEPT !.byte_pos = @ + 1, !.bit_pos = 0]
                   ELSE [s EXCEPT !.bit_pos = bp]
         IN BitStream_read_loop_lsb(s2, bit_count, result2, bits_read + bits_to_read)

\* the while loop of BitStream.read_bits
RECURSIVE BitStream_read_loop(_, _, _, _)
BitStream_read_loop(s, bit_count, result, bits_read) ==
  IF bits_read >= bit_count THEN Ret(s, "none", result)
  ELSE IF s.byte_pos >= Len(s.buffer)
    THEN IF bits_read = 0 THEN Ret(s, "EndOfStream", Zero)
         ELSE Ret(s, "none", result)
    ELSE LET current_byte == s.buffer[s.byte_pos + 1]
             bits_left_in_byte == 8 - s.bit_pos
             bits_to_read == Min(bit_count - bits_read, bits_left_in_byte)
             mask == Pow2(bits_to_read) - 1
             shift == bits_left_in_byte - bits_to_read
             extracted_bits == BitAnd(current_byte \div Pow2(shift), mask)
             result2 == OrShifted(result, extracted_bits,
                                  bit_count - bits_read - bits_to_read)
             bp == s.bit_pos + bits_to_read
             s2 == IF bp = 8 THEN [s EXCEPT !.byte_pos = @ + 1, !.bit_pos = 0]
                   ELSE [s EXCEPT !.bit_pos = bp]
         IN BitStream_read_loop(s2, bit_count, result2, bits_read + bits_to_read)

BitStream_read_bits(s, bit_count) ==
  IF bit_count <= 0 \/ bit_count > WORD THEN Ret(s, "InvalidWidth", Zero)
  ELSE IF BitStream_position(s) + bit_count > s.bit_length
    THEN Ret(s, "EndOfStream", Zero)
    ELSE BitStream_read_loop(s, bit_count, Zero, 0)

\* variant: read_bits_u128 without its own check of the bits available
BitStream_read_bits_u128_unchecked(s, bit_count) ==
  IF bit_count <= 0 \/ bit_count > WIDE THEN Ret(s, "InvalidWidth", Zero)
  ELSE IF bit_count <= WORD THEN BitStream_read_bits(s, bit_count)
  ELSE LET high_bits == bit_count - WORD
           hi == BitStream_read_bits(s, high_bits)
       IN IF hi.err # "none" THEN hi
          ELSE LET lo == BitStream_read_bits(hi.s, WORD)
               IN IF lo.err # "none" THEN lo
                  ELSE Ret(lo.s, "none", IntOr(ShiftLeft(hi.val, WORD), lo.val))

BitStream_read_bits_u128(s, bit_count) ==
  IF bit_count <= 0 \/ bit_count > WIDE THEN Ret(s, "InvalidWidth", Zero)
  ELSE IF bit_count <= WORD THEN BitStream_read_bits(s, bit_count)
  ELSE IF BitStream_position(s) + bit_count > s.bit_length
    THEN Ret(s, "EndOfStream", Zero)
    ELSE LET high_bits == bit_count - WORD
             hi == BitStream_read_bits(s, high_bits)
         IN IF hi.err # "none" THEN hi
            ELSE LET lo == BitStream_read_bits(hi.s, WORD)
                 IN IF lo.err # "none" THEN lo
                    ELSE Ret(lo.s, "none", IntOr(ShiftLeft(hi.val, WORD), lo.val))

\* the while loop of BitStream.write_bits
RECURSIVE BitStream_write_loop(_, _, _, _)
BitStream_write_loop(s, value, bit_count, bits_written) ==
  IF bits_written >= bit_count THEN s
  ELSE LET bits_left_in_byte == 8 - s.bit_pos
           bits_to_write == Min(bit_count - bits_written, bits_left_in_byte)
           shift == bit_count - bits_written - bits_to_write
           extracted_bits == ExtractField(value, shift, bits_to_write)
           byte_shift == bits_left_in_byte - bits_to_write
           byte_mask == 255 - (Pow2(bits_to_write) - 1) * Pow2(byte_shift)
           byte == BitOr(BitAnd(s.buffer[s.byte_pos + 1], byte_mask),
                         extracted_bits * Pow2(byte_shift))
           bp == s.bit_pos + bits_to_write
           s1 == [s EXCEPT !.buffer[s.byte_pos + 1] = byte]
           s2 == IF bp = 8 THEN [s1 EXCEPT !.byte_pos = @ + 1, !.bit_pos = 0]
                 ELSE [s1 EXCEPT !.bit_pos = bp]
       IN BitStream_write_loop(s2, value, bit_count, bits_written + bits_to_write)

\* buffer.extend([0] * k)
Extend(buffer, k) == buffer \o [i \in 1 .. k |-> 0]

\* variant: write_bits setting bit_length to the cursor after every write
BitStream_write_bits_length_at_cursor(s, value, bit_count) ==
  IF bit_count <= 0 \/ bit_count > WORD THEN Ret(s, "InvalidWidth", Zero)
  ELSE LET required_bytes == (BitStream_position(s) + bit_count + 7) \div 8
           s1 == IF required_bytes > Len(s.buffer)
                   THEN [s EXCEPT !.buffer = Extend(@, required_bytes - Len(@))]
                   ELSE s
           s2 == BitStream_write_loop(s1, value, bit_count, 0)
       IN Ret([s2 EXCEPT !.bit_length = BitStream_position(s2)], "none", Zero)

BitStream_write_bits(s, value, bit_count) ==
  IF bit_count <= 0 \/ bit_count > WORD THEN Ret(s, "InvalidWidth", Zero)
  ELSE LET required_bytes == (BitStream_position(s) + bit_count + 7) \div 8
           s1 == IF required_bytes > Len(s.buffer)
                   THEN [s EXCEPT !.buffer = Extend(@, required_bytes - Len(@))]
                   ELSE s
           s2 == BitStream_write_loop(s1, value, bit_count, 0)
           new_position == BitStream_position(s2)
       IN Ret(IF new_position > s2.bit_length
                THEN [s2 EXCEPT !.bit_length = new_position] ELSE s2,
              "none", Zero)

\* variant: write_bits_u128 writing the low 64 bits before the high bits
BitStream_write_bits_u128_low_first(s, value, bit_count) ==
  IF bit_count <= 0 \/ bit_count > WIDE THEN Ret(s, "InvalidWidth", Zero)
  ELSE IF bit_count <= WORD THEN BitStream_write_bits(s, value, bit_count)
  ELSE LET high_bits == bit_count - WORD
           high_value == ShiftRight(value, WORD)
           low_value == IntAnd(value, OnesMask(WORD))
           lo == BitStream_write_bits(s, low_value, WORD)
       IN IF lo.err # "none" THEN lo
          ELSE BitStream_write_bits(lo.s, high_value, high_bits)

BitStream_write_bits_u128(s, value, bit_count) ==
  IF bit_count <= 0 \/ bit_count > WIDE THEN Ret(s, "InvalidWidth", Zero)
  ELSE IF bit_count <= WORD THEN BitStream_write_bits(s, value, bit_count)
  ELSE LET high_bits == bit_count - WORD
           high_value == ShiftRight(value, WORD)
           low_value == IntAnd(value, OnesMask(WORD))
           hi == BitStream_write_bits(s, high_value, high_bits)
       IN IF hi.err # "none" THEN hi
          ELSE BitStream_write_bits(hi.s, low_value, WORD)

NoBitValue == [err |-> "absent", value |-> Zero, bit_count |-> 0, is_signed |-> FALSE]

\* variant: read_bit_value without the two's-complement conversion
BitStream_read_bit_value_unsigned(s, bit_count, is_signed) ==
  LET r == IF bit_count <= WORD THEN BitStream_read_bits(s, bit_count)
           ELSE BitStream_read_bits_u128(s, bit_count)
  IN IF r.err # "none" THEN [s |-> r.s, err |-> r.err, val |-> Zero, bv |-> NoBitValue]
     ELSE LET bv == BitValue_init(r.val, bit_count)
          IN [s |-> r.s, err |-> bv.err, val |-> bv.value, bv |-> bv]

\* read_bit_value returns [s, err, val, bv]: bv is the BitValue built, val its integer
BitStream_read_bit_value(s, bit_count, is_signed) ==
  LET r == IF bit_count <= WORD THEN BitStream_read_bits(s, bit_count)
           ELSE BitStream_read_bits_u128(s, bit_count)
  IN IF r.err # "none" THEN [s |-> r.s, err |-> r.err, val |-> Zero, bv |-> NoBitValue]
     ELSE LET value == IF is_signed /\ Bit(r.val, bit_count - 1) = 1
                         THEN IntSub(r.val, OneShl(bit_count))
                         ELSE r.val
              bv == BitValue_init(value, bit_count)
          IN [s |-> r.s, err |-> bv.err, val |-> bv.value, bv |-> bv]

\* write_bit_value(value, bit_count) with an explicit bit_count
BitStream_write_bit_value(s, bv, bit_count) ==
  IF bit_count <= WORD THEN BitStream_write_bits(s, bv.value, bit_count)
  ELSE BitStream_write_bits_u128(s, bv.value, bit_count)

\* write_bit_value(value): bit_count is None, the BitValue's own width is used
BitStream_write_bit_value_default(s, bv) ==
  BitStream_write_bit_value(s, bv, bv.bit_count)

\* ---------------------------------------------------------- byte source
\* The external stream a reader borrows: [data, pos, chunk, requests].
\* read(k) hands out at most k bytes, at most chunk bytes at a time
\* (io.BytesIO hands out all it has, up to k), and none once pos has reached
\* the end of data; requests counts the read() calls made on the stream.
Source(data, chunk) == [data |-> data, pos |-> 0, chunk |-> chunk, requests |-> 0]

Source_read(src, k) ==
  LET m == Min(Min(k, src.chunk), Len(src.data) - src.pos)
  IN [bytes |-> SubSeq(src.data, src.pos + 1, src.pos + m),
      src |-> [src EXCEPT !.pos = @ + m, !.requests = @ + 1]]

\* --------------------------------------------------------- BitStreamReader
\* A reader is [buffer, byte_pos, bit_pos, buffer_size, eof].  Its calls
\* return [s, src, err, val, bits]: reader and source afterwards, the error
\* raised, the value returned and the number of bits the call took from the
\* source's bytes (the loop's bits_read).
BitStreamReader_init(buffer_size) ==
  [buffer |-> [i \in 1 .. buffer_size |-> 0], byte_pos |-> 0, bit_pos |-> 0,
   buffer_size |-> 0, eof |-> FALSE]

\* variant: _fill_buffer taking the whole buffer as filled, however few
\* bytes the source handed out
BitStreamReader_fill_buffer_whole(s, src) ==
  LET got == Source_read(src, Len(s.buffer))
      k == Len(got.bytes)
      s1 == [s EXCEPT !.byte_pos = 0, !.bit_pos = 0]
  IN [src |-> got.src,
      s |-> IF k = 0 THEN [s1 EXCEPT !.buffer_size = 0, !.eof = TRUE]
            ELSE [s1 EXCEPT !.buffer_size = Len(s.buffer),
                            !.buffer = got.bytes \o SubSeq(@, k + 1, Len(@))]]

BitStreamReader_fill_buffer(s, src) ==
  LET got == Source_read(src, Len(s.buffer))
      k == Len(got.bytes)
      s1 == [s EXCEPT !.byte_pos = 0, !.bit_pos = 0]
  IN [src |-> got.src,
      s |-> IF k = 0 THEN [s1 EXCEPT !.buffer_size = 0, !.eof = TRUE]
            ELSE [s1 EXCEPT !.buffer_size = k,
                            !.buffer = got.bytes \o SubSeq(@, k + 1, Len(@))]]

\* variant: is_eof looking only at the buffer
BitStreamReader_is_eof_buffer_only(s, src) ==
  [s |-> s, src |-> src, flag |-> s.byte_pos >= s.buffer_size]

\* is_eof(): [s, src, flag]
BitStreamReader_is_eof(s, src) ==
  IF ~s.eof THEN [s |-> s, src |-> src, flag |-> FALSE]
  ELSE IF s.byte_pos >= s.buffer_size THEN [s |-> s, src |-> src, flag |-> TRUE]
  ELSE IF s.byte_pos = s.buffer_size - 1 /\ s.bit_pos = 8
    THEN [s |-> s, src |-> src, flag |-> TRUE]
  ELSE LET got == Source_read(src, 1)
       IN IF got.bytes = << >>
            THEN [s |-> [s EXCEPT !.eof = TRUE], src |-> got.src,
                  flag |-> s.byte_pos >= s.buffer_size]
            ELSE [s |-> s, src |-> [got.src EXCEPT !.pos = src.pos], flag |-> FALSE]

RdRet(s, src, err, val, bits) ==
  [s |-> s, src |-> src, err |-> err, val |-> val, bits |-> bits]

\* variant: the reader's loop taking each group from the top of the byte
RECURSIVE BitStreamReader_read_loop_msb(_, _, _, _, _)
BitStreamReader_read_loop_msb(s, src, bit_count, result, bits_read) ==
  IF bits_read >= bit_count THEN RdRet(s, src, "none", result, bits_read)
  ELSE IF s.byte_pos >= s.buffer_size /\ s.eof
    THEN IF bits_read = 0 THEN RdRet(s, src, "EndOfStream", Zero, 0)
         ELSE RdRet(s, src, "none", result, bits_read)
  ELSE LET f == IF s.byte_pos >= s.buffer_size
                  THEN BitStreamReader_fill_buffer(s, src)
                  ELSE [s |-> s, src |-> src]
       IN IF f.s.buffer_size = 0 /\ s.byte_pos >= s.buffer_size
            THEN LET s1 == [f.s EXCEPT !.eof = TRUE]
                 IN IF bits_read = 0 THEN RdRet(s1, f.src, "EndOfStream", Zero, 0)
                    ELSE RdRet(s1, f.src, "none", result, bits_read)
            ELSE LET current_byte == f.s.buffer[f.s.byte_pos + 1]
                     bits_left_in_byte == 8 - f.s.bit_pos
                     bits_to_read == Min(bit_count - bits_read, bits_left_in_byte)
                     mask == Pow2(bits_to_read) - 1
                     shift == bits_left_in_byte - bits_to_read
                     extracted_bits == BitAnd(current_byte \div Pow2(shift), mask)
                     result2 == OrShifted(result, extracted_bits, bits_read)
                     bp == f.s.bit_pos + bits_to_read
                     s2 == IF bp = 8
                             THEN [f.s EXCEPT !.byte_pos = @ + 1, !.bit_pos = 0]
                             ELSE [f.s EXCEPT !.bit_pos = bp]
                 IN BitStreamReader_read_loop_msb(s2, f.src, bit_count, result2,
                                                  bits_read + bits_to_read)

\* the while loop of BitStreamReader.read_bits
RECURSIVE BitStreamReader_read_loop(_, _, _, _, _)
BitStreamReader_read_loop(s, src, bit_count, result, bits_read) ==
  IF bits_read >= bit_count THEN RdRet(s, src, "none", result, bits_read)
  ELSE IF s.byte_pos >= s.buffer_size /\ s.eof
    THEN IF bits_read = 0 THEN RdRet(s, src, "EndOfStream", Zero, 0)
         ELSE RdRet(s, src, "none", result, bits_read)
  ELSE LET f == IF s.byte_pos >= s.buffer_size
                  THEN BitStreamReader_fill_buffer(s, src)
                  ELSE [s |-> s, src |-> src]
       IN IF f.s.buffer_size = 0 /\ s.byte_pos >= s.buffer_size
            THEN LET s1 == [f.s EXCEPT !.eof = TRUE]
                 IN IF bits_read = 0 THEN RdRet(s1, f.src, "EndOfStream", Zero, 0)
                    ELSE RdRet(s1, f.src, "none", result, bits_read)
            ELSE LET current_byte == f.s.buffer[f.s.byte_pos + 1]
                     bits_left_in_byte == 8 - f.s.bit_pos
                     bits_to_read == Min(bit_count - bits_read, bits_left_in_byte)
                     mask == Pow2(bits_to_read) - 1
                     shift == f.s.bit_pos
                     extracted_bits == BitAnd(current_byte \div Pow2(shift), mask)
                     result2 == OrShifted(result, extracted_bits, bits_read)
                     bp == f.s.bit_pos + bits_to_read
                     s2 == IF bp = 8
                             THEN [f.s EXCEPT !.byte_pos = @ + 1, !.bit_pos = 0]
                             ELSE [f.s EXCEPT !.bit_pos = bp]
                 IN BitStreamReader_read_loop(s2, f.src, bit_count, result2,
                                              bits_read + bits_to_read)

\* variant: read_bits forgetting the exhaustion flag before it starts
BitStreamReader_read_bits_retrying(s, src, bit_count) ==
  IF bit_count <= 0 \/ bit_count > WORD THEN RdRet(s, src, "InvalidWidth", Zero, 0)
  ELSE BitStreamReader_read_loop([s EXCEPT !.eof = FALSE], src, bit_count, Zero, 0)

BitStreamReader_read_bits(s, src, bit_count) ==
  IF bit_count <= 0 \/ bit_count > WORD THEN RdRet(s, src, "InvalidWidth", Zero, 0)
  ELSE BitStreamReader_read_loop(s, src, bit_count, Zero, 0)

\* variant: the reader's read_bits_u128 without its width check
BitStreamReader_read_bits_u128_unchecked(s, src, bit_count) ==
  IF bit_count <= WORD THEN BitStreamReader_read_bits(s, src, bit_count)
  ELSE LET lo == BitStreamReader_read_bits(s, src, WORD)
       IN IF lo.err # "none" THEN lo
          ELSE LET high_bits == bit_count - WORD
                   hi == BitStreamReader_read_bits(lo.s, lo.src, high_bits)
               IN IF hi.err # "none"
                    THEN RdRet(hi.s, hi.src, hi.err, Zero, lo.bits)
                    ELSE RdRet(hi.s, hi.src, "none",
                               IntOr(ShiftLeft(hi.val, WORD), lo.val),
                               lo.bits + hi.bits)

BitStreamReader_read_bits_u128(s, src, bit_count) ==
  IF bit_count <= 0 \/ bit_count > WIDE THEN RdRet(s, src, "InvalidWidth", Zero, 0)
  ELSE IF bit_count <= WORD THEN BitStreamReader_read_bits(s, src, bit_count)
  ELSE LET lo == BitStreamReader_read_bits(s, src, WORD)
       IN IF lo.err # "none" THEN lo
          ELSE LET high_bits == bit_count - WORD
                   hi == BitStreamReader_read_bits(lo.s, lo.src, high_bits)
               IN IF hi.err # "none"
                    THEN RdRet(hi.s, hi.src, hi.err, Zero, lo.bits)
                    ELSE RdRet(hi.s, hi.src, "none",
                               IntOr(ShiftLeft(hi.val, WORD), lo.val),
                               lo.bits + hi.bits)

\* --------------------------------------------------------- BitStreamWriter
\* A writer is [buffer, byte_pos, bit_pos, buffer_size]; sink is the byte
\* sequence the external stream has received.  Calls return [s, sink, err].
BitStreamWriter_init(buffer_size) ==
  [buffer |-> [i \in 1 .. buffer_size |-> 0], byte_pos |-> 0, bit_pos |-> 0,
   buffer_size |-> buffer_size]

WrRet(s, sink, err) == [s |-> s, sink |-> sink, err |-> err]

\* variant: _flush_buffer delivering only the first pending byte
BitStreamWriter_flush_buffer_first_only(s, sink) ==
  IF s.byte_pos > 0
    THEN WrRet([s EXCEPT !.byte_pos = 0, !.buffer[1] = 0],
               sink \o SubSeq(s.buffer, 1, 1), "none")
    ELSE WrRet(s, sink, "none")

BitStreamWriter_flush_buffer(s, sink) ==
  IF s.byte_pos > 0
    THEN WrRet([s EXCEPT !.byte_pos = 0, !.buffer[1] = 0],
               sink \o SubSeq(s.buffer, 1, s.byte_pos), "none")
    ELSE WrRet(s, sink, "none")

\* variant: flush counting the current byte as pending whatever bit_pos is
BitStreamWriter_flush_always_pending(s, sink) ==
  BitStreamWriter_flush_buffer([s EXCEPT !.byte_pos = @ + 1, !.bit_pos = 0], sink)

BitStreamWriter_flush(s, sink) ==
  BitStreamWriter_flush_buffer(
    IF s.bit_pos > 0 THEN [s EXCEPT !.byte_pos = @ + 1, !.bit_pos = 0] ELSE s, sink)

\* the while loop of BitStreamWriter.write_bits
RECURSIVE BitStreamWriter_write_loop(_, _, _, _, _)
BitStreamWriter_write_loop(s, sink, value, bit_count, bits_written) ==
  IF bits_written >= bit_count THEN WrRet(s, sink, "none")
  ELSE LET bits_left_in_byte == 8 - s.bit_pos
           bits_to_write == Min(bit_count - bits_written, bits_left_in_byte)
           shift == bits_written
           extracted_bits == ExtractField(value, shift, bits_to_write)
           byte_shift == bits_left_in_byte - bits_to_write
           byte_mask == 255 - (Pow2(bits_to_write) - 1) * Pow2(byte_shift)
           byte == BitOr(BitAnd(s.buffer[s.byte_pos + 1], byte_mask),
                         extracted_bits * Pow2(byte_shift))
           bp == s.bit_pos + bits_to_write
           s1 == [s EXCEPT !.buffer[s.byte_pos + 1] = byte]
           s2 == IF bp = 8 THEN [s1 EXCEPT !.byte_pos = @ + 1, !.bit_pos = 0]
                 ELSE [s1 EXCEPT !.bit_pos = bp]
           f == IF bp = 8 /\ s2.byte_pos >= s2.buffer_size
                  THEN BitStreamWriter_flush_buffer(s2, sink)
                  ELSE WrRet(s2, sink, "none")
       IN BitStreamWriter_write_loop(f.s, f.sink, value, bit_count,
                                     bits_written + bits_to_write)

BitStreamWriter_write_bits(s, sink, value, bit_count) ==
  IF bit_count <= 0 \/ bit_count > WORD THEN WrRet(s, sink, "InvalidWidth")
  ELSE LET f == IF s.byte_pos >= s.buffer_size
                  THEN BitStreamWriter_flush_buffer(s, sink)
                  ELSE WrRet(s, sink, "none")
       IN BitStreamWriter_write_loop(f.s, f.sink, value, bit_count, 0)

BitStreamWriter_write_bits_u128(s, sink, value, bit_count) ==
  IF bit_count <= 0 \/ bit_count > WIDE THEN WrRet(s, sink, "InvalidWidth")
  ELSE IF bit_count <= WORD THEN BitStreamWriter_write_bits(s, sink, value, bit_count)
  ELSE LET low_value == IntAnd(value, OnesMask(WORD))
           high_bits == bit_count - WORD
           high_value == ShiftRight(value, WORD)
           lo == BitStreamWriter_write_bits(s, sink, low_value, WORD)
       IN IF lo.err # "none" THEN lo
          ELSE BitStreamWriter_write_bits(lo.s, lo.sink, high_value, high_bits)

\* ------------------------------------------------------------------ inputs
\* the n-bit values the calls are given: every bit set, every third bit set,
\* only the highest and the lowest bit set, no bit set
PatIds == {"ones", "third", "ends", "zeros"}

PatBit(k, n, i) ==
  IF i >= n THEN 0
  ELSE CASE k = "ones" -> 1
         [] k = "third" -> IF i % 3 = 0 THEN 1 ELSE 0
         [] k = "ends" -> IF i = 0 \/ i = n - 1 THEN 1 ELSE 0
         [] OTHER -> 0

PatByte(k, n, j) ==
  LET RECURSIVE sum(_)
      sum(t) == IF t = 8 THEN 0 ELSE PatBit(k, n, 8 * j + t) * Pow2(t) + sum(t + 1)
  IN sum(0)

PatVec(k, n) == Vec(LAMBDA j : PatByte(k, n, j))

\* the patterns, tabulated for every width a call may be given
PatTable == [k \in PatIds |-> [n \in 0 .. (WIDE + 1) |-> PatVec(k, n)]]

Pat(k, n) == PatTable[k][n]

\* the negative n-bit value whose low n - 1 bits follow pattern k
NegPat(k, n) == IntSub(IntAnd(Pat(k, n), OnesMask(n - 1)), OneShl(n - 1))

BsData == {<< >>, <<165, 90>>, <<255, 0, 170, 85, 15, 240, 51, 204, 129>>}

\* where the cursor stands when a behaviour starts
BsStartPositions == {0, 3}

BsReadWidths == {0, 1, 3, 4, 8, 64, 65}

BsWideReadWidths == {0, 3, 65, 128, 129}

\* read_bit_value(n, is_signed)
BsBitValueReads ==
  ({0, 1, 5, 65, 128, 129} \X {TRUE}) \cup ({5, 128} \X {FALSE})

\* write_bits(Pat(k, n), n)
BsWrites == {<<0, "ones">>, <<65, "ones">>} \cup ({3, 64} \X {"third", "ends"})

\* write_bits_u128(Pat(k, n), n)
BsWideWrites == {<<0, "ones">>, <<3, "ends">>, <<129, "ones">>}
                  \cup ({65, 128} \X {"third", "ends"})

\* the BitValues a caller holds: BitValue(value, bit_count) that construct
BsBitValues ==
  LET made == {BitValue_init(NegPat("third", n), n) : n \in {1, 5, 65, 128}}
                \cup {BitValue_init(NegPat("zeros", 64), 64),
                      BitValue_init(NegPat("ones", 64), 64),
                      BitValue_init(Pat("third", 5), 5)}
  IN {bv \in made : bv.err = "none"}

\* write_bit_value(bv, n) with an explicit n
BsBitValueWidths == {0, 8, 129}

\* the values written in a round trip: every width class, in range
BsTripWrites == {1, 3, 8, 13, 63, 64} \X {"third", "ends", "ones"}

BsTripWideWrites == {7, 64, 65, 100, 127, 128} \X {"third", "ends", "ones"}

\* sources a reader is given
RdData == {<< >>, <<165, 90>>, <<255>>, <<255, 0, 170, 85, 15, 240, 51, 204, 129>>}

\* <<reader buffer size, bytes the source hands out per request>>
RdConfigs == {<<1, 16>>, <<2, 1>>, <<16, 3>>, <<16, 16>>}

RdReadWidths == {0, 1, 3, 4, 8, 64, 65}

RdWideReadWidths == {0, 65, 80, 128, 129}

WrCapacities == {1, 2, 16}

\* <<width, pattern>> of the fields a transfer writes
PipeFields == {<<1, "ones">>, <<3, "third">>, <<8, "third">>, <<13, "ends">>,
               <<64, "third">>, <<100, "third">>, <<128, "ends">>}

\* <<width, pattern>> arguments of the writer's write_bits
WrWrites == {<<0, "ones">>, <<1, "zeros">>, <<3, "third">>, <<8, "third">>,
             <<13, "ends">>, <<64, "ones">>, <<65, "ones">>}

\* <<width, pattern>> arguments of the writer's write_bits_u128
WrWideWrites == {<<0, "ones">>, <<100, "third">>, <<128, "ones">>, <<129, "ones">>}

\* exponents k around which BitValue arguments are taken
BvExponents == {0, 6, 8, 64, 127, 128}

\* value arguments of BitValue: 2^k, 2^k - 1, -2^k, -2^k - 1, and 0, 42, -42
BvValues ==
  {Zero, FromInt(42), FromInt(-42)}
    \cup {OneShl(k) : k \in BvExponents}
    \cup {OnesMask(k) : k \in BvExponents}
    \cup {IntSub(Zero, OneShl(k)) : k \in BvExponents}
    \cup {IntSub(IntSub(Zero, OneShl(k)), FromInt(1)) : k \in BvExponents}

\* bit_count arguments of BitValue
BvWidths == {0, 1, 2, 6, 7, 8, 9, 64, 65, 127, 128, 129}

\* bytes a source gains
SrcGainBytes == {60}

BsPositions(s) == {8, s.bit_length, s.bit_length + 1}

VARIABLES
  bs,       \* the BitStream
  bsLast,   \* the last call made on it: arguments, object before, outcome
  bsTrip,   \* progress of a write / set_position / read sequence
  bsOps,    \* calls made so far
  rd,       \* the BitStreamReader
  src,      \* the byte source it reads from
  rdLast,   \* the last call made on the reader
  rdBits,   \* bits the reader's calls have taken from the source so far
  wr,       \* the BitStreamWriter
  sink,     \* the bytes its stream has received
  wrLast,   \* the last call made on the writer
  wrLog,    \* the (value, width) fields written, in order
  rdLog,    \* what reading them back has returned, in order
  bvLast,   \* the last BitValue construction
  phase     \* of a writer-to-reader transfer: "write", "flushed", "read"

bsVars == <<bs, bsLast, bsTrip, bsOps>>

rdVars == <<rd, src, rdLast, rdBits>>

wrVars == <<wr, sink, wrLast, wrLog, rdLog, phase>>

bvVars == <<bvLast>>

vars == <<bsVars, rdVars, wrVars, bvVars>>

NoTrip == [stage |-> 0, op |-> "none", p |-> 0, n |-> 0, v |-> Zero]

NoCall == [op |-> "init", n |-> 0, arg |-> Zero, signed |-> FALSE,
           pre |-> BitStream_init(<< >>), err |-> "none", val |-> Zero,
           bv |-> NoBitValue]

NoRead == [op |-> "init", n |-> 0, pre |-> BitStreamReader_init(0),
           preSrc |-> Source(<< >>, 1), k0 |-> 0,
           err |-> "none", val |-> Zero, bits |-> 0, flag |-> FALSE]

NoConstruct == [value |-> Zero, bit_count |-> 0, given |-> FALSE, made |-> NoBitValue]

\* the objects a specification does not exercise
BvIdle == bvLast = NoConstruct

BsIdle ==
  /\ bs = BitStream_init(<< >>)
  /\ bsLast = NoCall
  /\ bsTrip = NoTrip
  /\ bsOps = 0

RdIdle ==
  /\ rd = BitStreamReader_init(0)
  /\ src = Source(<< >>, 1)
  /\ rdLast = NoRead
  /\ rdBits = 0

NoWrite == [op |-> "init", n |-> 0, pre |-> BitStreamWriter_init(0), preSink |-> << >>,
            err |-> "none", prev |-> "init", flushes |-> 0, calls |-> 0]

WrIdle ==
  /\ wrLast = NoWrite
  /\ wr = BitStreamWriter_init(0)
  /\ sink = << >>
  /\ wrLog = << >>
  /\ rdLog = << >>
  /\ phase = "idle"

\* a BitStream constructed from data, its cursor moved to a start position
BsInit ==
  /\ BvIdle
  /\ RdIdle
  /\ WrIdle
  /\ \E data \in BsData, p \in BsStartPositions :
       /\ p <= 8 * Len(data)
       /\ bs = BitStream_set_position(BitStream_init(data), p).s
  /\ bsLast = NoCall
  /\ bsTrip = NoTrip
  /\ bsOps = 0

\* which read undoes which write
ReadOf(op) ==
  CASE op = "write_bits" -> "read_bits"
    [] op = "write_bits_u128" -> "read_bits_u128"
    [] op = "write_bit_value" -> "read_bit_value"
    [] OTHER -> "none"

\* the write / set_position / read sequence under way after this call
TripAfter(op, n, arg, signed, r) ==
  IF r.err # "none" THEN NoTrip
  ELSE IF ReadOf(op) # "none"
    THEN [stage |-> 1, op |-> op, p |-> BitStream_position(bs), n |-> n, v |-> arg]
  ELSE IF op = "set_position" /\ bsTrip.stage = 1 /\ n = bsTrip.p
    THEN [bsTrip EXCEPT !.stage = 2]
  ELSE IF bsTrip.stage = 2 /\ op = ReadOf(bsTrip.op) /\ n = bsTrip.n
          /\ (op = "read_bit_value" => signed)
    THEN [bsTrip EXCEPT !.stage = 3]
  ELSE NoTrip

\* one call on the BitStream: r is what the call returns
BsCall(op, n, arg, signed, r, bv) ==
  /\ bsOps' = bsOps + 1
  /\ bs' = r.s
  /\ bsLast' = [op |-> op, n |-> n, arg |-> arg, signed |-> signed, pre |-> bs,
                err |-> r.err, val |-> r.val, bv |-> bv]
  /\ bsTrip' = TripAfter(op, n, arg, signed, r)
  /\ UNCHANGED <<rdVars, wrVars, bvVars>>

DoFromBytes(data) ==
  \E r \in {BitStream_from_bytes(bs, data)} :
    BsCall("from_bytes", Len(data), Zero, FALSE, r, NoBitValue)

DoSetPosition(p) ==
  \E r \in {BitStream_set_position(bs, p)} :
    BsCall("set_position", p, Zero, FALSE, r, NoBitValue)

DoReset ==
  \E r \in {BitStream_reset(bs)} : BsCall("reset", 0, Zero, FALSE, r, NoBitValue)

DoReadBits(n) ==
  \E r \in {BitStream_read_bits(bs, n)} :
    BsCall("read_bits", n, Zero, FALSE, r, NoBitValue)

DoReadBitsU128(n) ==
  \E r \in {BitStream_read_bits_u128(bs, n)} :
    BsCall("read_bits_u128", n, Zero, FALSE, r, NoBitValue)

DoReadBitValue(n, signed) ==
  \E r \in {BitStream_read_bit_value(bs, n, signed)} :
    BsCall("read_bit_value", n, Zero, signed, r, r.bv)

DoWriteBits(v, n) ==
  \E r \in {BitStream_write_bits(bs, v, n)} :
    BsCall("write_bits", n, v, FALSE, r, NoBitValue)

DoWriteBitsU128(v, n) ==
  \E r \in {BitStream_write_bits_u128(bs, v, n)} :
    BsCall("write_bits_u128", n, v, FALSE, r, NoBitValue)

DoWriteBitValueDefault(bv) ==
  \E r \in {BitStream_write_bit_value_default(bs, bv)} :
    BsCall("write_bit_value", bv.bit_count, bv.value, bv.is_signed, r, bv)

DoWriteBitValue(bv, n) ==
  \E r \in {BitStream_write_bit_value(bs, bv, n)} :
    BsCall("write_bit_value", n, bv.value, bv.is_signed, r, bv)

\* ---- any call, from any start state
BsFromBytes == bsOps < MaxOps /\ \E data \in BsData : DoFromBytes(data)

BsSetPosition == bsOps < MaxOps /\ \E p \in BsPositions(bs) : DoSetPosition(p)

BsReset == bsOps < MaxOps /\ DoReset

BsReadBits == bsOps < MaxOps /\ \E n \in BsReadWidths : DoReadBits(n)

BsReadBitsU128 == bsOps < MaxOps /\ \E n \in BsWideReadWidths : DoReadBitsU128(n)

BsReadBitValue ==
  bsOps < MaxOps /\ \E a \in BsBitValueReads : DoReadBitValue(a[1], a[2])

BsWriteBits ==
  bsOps < MaxOps /\ \E w \in BsWrites : DoWriteBits(Pat(w[2], w[1]), w[1])

BsWriteBitsU128 ==
  bsOps < MaxOps /\ \E w \in BsWideWrites : DoWriteBitsU128(Pat(w[2], w[1]), w[1])

BsWriteBitValue ==
  /\ bsOps < MaxOps
  /\ \E bv \in BsBitValues :
       \/ DoWriteBitValueDefault(bv)
       \/ \E n \in BsBitValueWidths : DoWriteBitValue(bv, n)

BsNext ==
  \/ BsFromBytes
  \/ BsSetPosition
  \/ BsReset
  \/ BsReadBits
  \/ BsReadBitsU128
  \/ BsReadBitValue
  \/ BsWriteBits
  \/ BsWriteBitsU128
  \/ BsWriteBitValue

SpecBitStream == BsInit /\ [][BsNext]_vars

\* ---- round trips: a value is written at the cursor, the cursor is put
\* back where the write began and the same number of bits is read
TripOpen == bsTrip.stage \in {0, 3} /\ bsOps < 3 * MaxTrips

TripWriteBits ==
  TripOpen /\ \E w \in BsTripWrites : DoWriteBits(Pat(w[2], w[1]), w[1])

TripWriteBitsU128 ==
  TripOpen /\ \E w \in BsTripWideWrites : DoWriteBitsU128(Pat(w[2], w[1]), w[1])

TripWriteBitValue ==
  TripOpen /\ \E bv \in BsBitValues : DoWriteBitValueDefault(bv)

TripSetPosition == bsTrip.stage = 1 /\ DoSetPosition(bsTrip.p)

TripRead ==
  /\ bsTrip.stage = 2
  /\ \/ bsTrip.op = "write_bits" /\ DoReadBits(bsTrip.n)
     \/ bsTrip.op = "write_bits_u128" /\ DoReadBitsU128(bsTrip.n)
     \/ bsTrip.op = "write_bit_value" /\ DoReadBitValue(bsTrip.n, TRUE)

TripNext ==
  \/ TripWriteBits
  \/ TripWriteBitsU128
  \/ TripWriteBitValue
  \/ TripSetPosition
  \/ TripRead

SpecRoundTrip == BsInit /\ [][TripNext]_vars

\* ---- a reader over a finite source
RdInit ==
  /\ BvIdle
  /\ BsIdle
  /\ WrIdle
  /\ \E data \in RdData, c \in RdConfigs :
       /\ rd = BitStreamReader_init(c[1])
       /\ src = Source(data, c[2])
  /\ rdLast = NoRead
  /\ rdBits = 0

\* one call on the reader: r is what the call returns
RdCall(op, n, r) ==
  /\ rd' = r.s
  /\ src' = r.src
  /\ rdBits' = rdBits + r.bits
  /\ rdLast' = [op |-> op, n |-> n, pre |-> rd, preSrc |-> src, k0 |-> rdBits,
                err |-> r.err,
                val |-> r.val, bits |-> r.bits, flag |-> FALSE]

DoRdReadBits(n) ==
  \E r \in {BitStreamReader_read_bits(rd, src, n)} : RdCall("read_bits", n, r)

DoRdReadBitsU128(n) ==
  \E r \in {BitStreamReader_read_bits_u128(rd, src, n)} :
    RdCall("read_bits_u128", n, r)

RdReadBits ==
  (\E n \in RdReadWidths : DoRdReadBits(n)) /\ UNCHANGED <<bsVars, bvVars, wrVars>>

RdReadBitsU128 ==
  (\E n \in RdWideReadWidths : DoRdReadBitsU128(n)) /\ UNCHANGED <<bsVars, bvVars, wrVars>>

RdIsEof ==
  /\ \E r \in {BitStreamReader_is_eof(rd, src)} :
       /\ rd' = r.s
       /\ src' = r.src
       /\ rdLast' = [op |-> "is_eof", n |-> 0, pre |-> rd, preSrc |-> src,
                     k0 |-> rdBits,
                     err |-> "none", val |-> Zero, bits |-> 0, flag |-> r.flag]
  /\ UNCHANGED <<rdBits, bsVars, bvVars, wrVars>>

RdNext ==
  \/ RdReadBits
  \/ RdReadBitsU128
  \/ RdIsEof

SpecReader == RdInit /\ [][RdNext]_vars

\* ---- a transfer: fields are written through a writer, the writer is
\* flushed, and a reader over the bytes the stream received reads the
\* fields back with the same widths in the same order
PipeInit ==
  /\ BvIdle
  /\ BsIdle
  /\ RdIdle
  /\ \E c \in WrCapacities : wr = BitStreamWriter_init(c)
  /\ wrLast = NoWrite
  /\ sink = << >>
  /\ wrLog = << >>
  /\ rdLog = << >>
  /\ phase = "write"

PipeWrite ==
  /\ phase = "write"
  /\ Len(wrLog) < MaxFields
  /\ \E f \in PipeFields :
       \E v \in {Pat(f[2], f[1])} :
         \E r \in {IF f[1] <= WORD
                     THEN BitStreamWriter_write_bits(wr, sink, v, f[1])
                     ELSE BitStreamWriter_write_bits_u128(wr, sink, v, f[1])} :
           /\ wr' = r.s
           /\ sink' = r.sink
           /\ wrLog' = Append(wrLog, [n |-> f[1], v |-> v])
  /\ UNCHANGED <<wrLast, rdLog, phase, bsVars, bvVars, rdVars>>

PipeFlush ==
  /\ phase = "write"
  /\ wrLog # << >>
  /\ \E r \in {BitStreamWriter_flush(wr, sink)} :
       /\ wr' = r.s
       /\ sink' = r.sink
  /\ phase' = "flushed"
  /\ UNCHANGED <<wrLast, wrLog, rdLog, bsVars, bvVars, rdVars>>

PipeOpen ==
  /\ phase = "flushed"
  /\ \E c \in RdConfigs :
       /\ rd' = BitStreamReader_init(c[1])
       /\ src' = Source(sink, c[2])
  /\ phase' = "read"
  /\ UNCHANGED <<rdLast, rdBits, wr, sink, wrLast, wrLog, rdLog, bsVars, bvVars>>

PipeRead ==
  /\ phase = "read"
  /\ Len(rdLog) < Len(wrLog)
  /\ LET n == wrLog[Len(rdLog) + 1].n
     IN /\ IF n <= WORD THEN DoRdReadBits(n) ELSE DoRdReadBitsU128(n)
        /\ rdLog' = Append(rdLog, [err |-> rdLast'.err, val |-> rdLast'.val])
  /\ UNCHANGED <<wr, sink, wrLast, wrLog, phase, bsVars, bvVars>>

PipeNext ==
  \/ PipeWrite
  \/ PipeFlush
  \/ PipeOpen
  \/ PipeRead

SpecPipe == PipeInit /\ [][PipeNext]_vars

\* ---- a writer over a sink
WrInit ==
  /\ BvIdle
  /\ BsIdle
  /\ RdIdle
  /\ \E c \in WrCapacities : wr = BitStreamWriter_init(c)
  /\ sink = << >>
  /\ wrLast = NoWrite
  /\ wrLog = << >>
  /\ rdLog = << >>
  /\ phase = "writer"

\* one call on the writer: r is what the call returns
WrCall(op, n, v, r) ==
  /\ wr' = r.s
  /\ sink' = r.sink
  /\ wrLast' = [op |-> op, n |-> n, pre |-> wr, preSink |-> sink, err |-> r.err,
                prev |-> wrLast.op,
                flushes |-> wrLast.flushes + (IF op = "flush" THEN 1 ELSE 0),
                calls |-> wrLast.calls + 1]
  /\ wrLog' = IF op # "flush" /\ r.err = "none"
                THEN Append(wrLog, [n |-> n, v |-> v]) ELSE wrLog
  /\ UNCHANGED <<rdLog, phase, bsVars, bvVars, rdVars>>

WrWriteBits ==
  /\ wrLast.calls < MaxWriterOps
  /\ \E f \in WrWrites :
       \E v \in {Pat(f[2], f[1])} :
         \E r \in {BitStreamWriter_write_bits(wr, sink, v, f[1])} :
           WrCall("write_bits", f[1], v, r)

WrWriteBitsU128 ==
  /\ wrLast.calls < MaxWriterOps
  /\ \E f \in WrWideWrites :
       \E v \in {Pat(f[2], f[1])} :
         \E r \in {BitStreamWriter_write_bits_u128(wr, sink, v, f[1])} :
           WrCall("write_bits_u128", f[1], v, r)

WrFlush ==
  /\ wrLast.calls < MaxWriterOps
  /\ \E r \in {BitStreamWriter_flush(wr, sink)} : WrCall("flush", 0, Zero, r)

WrNext ==
  \/ WrWriteBits
  \/ WrWriteBitsU128
  \/ WrFlush

SpecWriter == WrInit /\ [][WrNext]_vars

\* ---- BitValue construction
BvInit ==
  /\ BsIdle
  /\ RdIdle
  /\ WrIdle
  /\ BvIdle

BvConstruct ==
  /\ \E value \in BvValues, bit_count \in BvWidths :
       bvLast' = [value |-> value, bit_count |-> bit_count, given |-> TRUE,
                  made |-> BitValue_init(value, bit_count)]
  /\ UNCHANGED <<bsVars, rdVars, wrVars>>

BvConstructDefault ==
  /\ \E value \in BvValues :
       bvLast' = [value |-> value, bit_count |-> 0, given |-> FALSE,
                  made |-> BitValue_init_default(value)]
  /\ UNCHANGED <<bsVars, rdVars, wrVars>>

BvNext ==
  \/ BvConstruct
  \/ BvConstructDefault

SpecBitValue == BvInit /\ [][BvNext]_vars

\* ---- one call on each of a BitStream, a reader and a writer, each of them
\* fresh or in mid-stream, in any order
WidthInit ==
  /\ BvIdle
  /\ \E b \in {BitStream_init(<< >>),
               BitStream_set_position(BitStream_init(<<165, 90>>), 3).s} : bs = b
  /\ bsLast = NoCall
  /\ bsTrip = NoTrip
  /\ bsOps = 0
  /\ \E r \in {RdRet(BitStreamReader_init(2), Source(<< >>, 16), "none", Zero, 0),
               BitStreamReader_read_bits(BitStreamReader_init(2),
                                         Source(<<165, 90>>, 16), 3)} :
       /\ rd = r.s
       /\ src = r.src
       /\ rdBits = r.bits
  /\ rdLast = NoRead
  /\ \E r \in {BitStreamWriter_write_bits(BitStreamWriter_init(2), << >>,
                                          Pat("third", 5), 5)} :
       /\ wr = r.s
       /\ sink = r.sink
  /\ wrLast = NoWrite
  /\ wrLog = <<[n |-> 5, v |-> Pat("third", 5)]>>
  /\ rdLog = << >>
  /\ phase = "writer"

WidthBitStream ==
  /\ bsLast.op = "init"
  /\ (BsReadBits \/ BsReadBitsU128 \/ BsWriteBits \/ BsWriteBitsU128)

WidthReader ==
  /\ rdLast.op = "init"
  /\ (RdReadBits \/ RdReadBitsU128)

WidthWriter ==
  /\ wrLast.op = "init"
  /\ (WrWriteBits \/ WrWriteBitsU128)

WidthNext ==
  \/ WidthBitStream
  \/ WidthReader
  \/ WidthWriter

SpecWidths == WidthInit /\ [][WidthNext]_vars

\* ---- a reader over a source that gains bytes after the reader has found
\* it exhausted
SrcGains ==
  /\ rd.eof
  /\ Len(src.data) - src.pos < MaxGains
  /\ \E b \in SrcGainBytes : src' = [src EXCEPT !.data = Append(@, b)]
  /\ UNCHANGED <<rd, rdLast, rdBits, bsVars, bvVars, wrVars>>

GrowingNext ==
  \/ RdReadBits
  \/ RdReadBitsU128
  \/ RdIsEof
  \/ SrcGains

SpecGrowing == RdInit /\ [][GrowingNext]_vars

\* ------------------------------------------------------------------ claims
\* bit i of the bit string formed by the bytes of a buffer, each byte taken
\* most-significant bit first
BufferBit(buffer, i) == (buffer[(i \div 8) + 1] \div Pow2(7 - (i % 8))) % 2

Returned(call) == call.err = "none"

\* C2: after write_bits(value, n) at position p, set_position(p) and
\* read_bits(n) return value (n in 1..64, 0 <= value < 2^n); likewise with
\* write_bits_u128 and read_bits_u128 for n in 1..128.
C2_RoundTrip ==
  (bsTrip.stage = 3 /\ bsTrip.op \in {"write_bits", "write_bits_u128"})
    => (Returned(bsLast) /\ bsLast.val = bsTrip.v)

C2_Witness ==
  /\ bsTrip.stage = 3
  /\ bsTrip.op = "write_bits_u128"
  /\ bsTrip.n = 127
  /\ bsTrip.p = 3
  /\ bsLast.val = Pat("third", 127)

\* C4: in every reachable state of a BitStream, length() <= 8 * (number of
\* backing bytes) and position() <= length().
C4_LengthAndPositionBounded ==
  /\ BitStream_length(bs) <= 8 * Len(bs.buffer)
  /\ BitStream_position(bs) <= BitStream_length(bs)

C4_Witness ==
  /\ bsLast.op = "write_bits"
  /\ Returned(bsLast)
  /\ Len(bs.buffer) > Len(bsLast.pre.buffer)
  /\ BitStream_length(bs) < 8 * Len(bs.buffer)
  /\ BitStream_position(bs) = BitStream_length(bs)

RawCalls == {"read_bits", "read_bits_u128", "write_bits", "write_bits_u128"}

\* C5: a successful read_bits, read_bits_u128, write_bits or write_bits_u128
\* of n bits moves position() forward by exactly n; a failing one leaves
\* position(), length() and the stored bytes as they were.
C5_AdvanceOrUntouched ==
  bsLast.op \in RawCalls =>
    IF Returned(bsLast)
      THEN BitStream_position(bs) = BitStream_position(bsLast.pre) + bsLast.n
      ELSE bs = bsLast.pre

C5_Witness ==
  /\ bsLast.op = "read_bits_u128"
  /\ bsLast.n = 65
  /\ bsLast.err = "EndOfStream"
  /\ BitStream_position(bs) + 64 <= BitStream_length(bs)
  /\ bsOps = 2

\* C6: read_bits(n) at position p with p + n <= length() returns the integer
\* whose n-bit representation is bits p..p+n-1 of the buffer's bit string
\* (bytes concatenated most-significant bit first), the earliest bit being
\* the most significant; over [0xA5, 0x5A] reads of 1, 3, 4 and 8 bits at
\* positions 0, 1, 4 and 8 give 1, 2, 5 and 0x5A, and read_bits(1) at
\* position 16 fails with EndOfStream.
C6_ReadBitsMsbFirst ==
  bsLast.op = "read_bits" =>
    LET p == BitStream_position(bsLast.pre)
        n == bsLast.n
        D == bsLast.pre.buffer
        at(q, w) == p = q /\ n = w /\ D = <<165, 90>>
    IN /\ (n \in 1 .. 64 /\ p + n <= BitStream_length(bsLast.pre)) =>
            /\ Returned(bsLast)
            /\ \A t \in 0 .. (n - 1) : Bit(bsLast.val, n - 1 - t) = BufferBit(D, p + t)
            /\ \A i \in n .. (8 * IntBytes) : Bit(bsLast.val, i) = 0
       /\ at(0, 1) => bsLast.val = FromInt(1)
       /\ at(1, 3) => bsLast.val = FromInt(2)
       /\ at(4, 4) => bsLast.val = FromInt(5)
       /\ at(8, 8) => bsLast.val = FromInt(90)
       /\ at(16, 1) => bsLast.err = "EndOfStream"

C6_Witness ==
  /\ bsLast.op = "read_bits"
  /\ bsLast.pre.buffer = <<165, 90>>
  /\ BitStream_position(bsLast.pre) = 1
  /\ bsLast.pre = [bsLast.pre EXCEPT !.byte_pos = 0, !.bit_pos = 1]
  /\ bsLast.n = 3
  /\ bsLast.val = FromInt(2)

\* C9: for a negative v with -2^(n-1) <= v <= -1 (n in 1..128), writing
\* BitValue(v, n) with write_bit_value at position p, returning to p and
\* calling read_bit_value(n, is_signed=True) yields a BitValue whose integer
\* is v and whose bit_count is n.
C9_SignedRoundTrip ==
  (bsTrip.stage = 3 /\ bsTrip.op = "write_bit_value" /\ IsNeg(bsTrip.v))
    => /\ Returned(bsLast)
       /\ bsLast.bv.err = "none"
       /\ bsLast.bv.value = bsTrip.v
       /\ bsLast.bv.bit_count = bsTrip.n

C9_Witness ==
  /\ bsTrip.stage = 3
  /\ bsTrip.op = "write_bit_value"
  /\ bsTrip.n = 128
  /\ bsTrip.p = 3
  /\ IsNeg(bsTrip.v)
  /\ bsLast.bv.value = NegPat("third", 128)

\* bit k of the source's bytes, counting from the least significant bit of
\* each byte: bit (k mod 8) of byte (k div 8)
SourceBit(data, k) == (data[(k \div 8) + 1] \div Pow2(k % 8)) % 2

ReaderReads == {"read_bits", "read_bits_u128"}

\* C1: after a sequence of (value, width) fields has been written through a
\* BitStreamWriter (write_bits for width <= 64, write_bits_u128 otherwise)
\* and the writer flushed, reading the same widths in the same order from a
\* BitStreamReader over the bytes produced returns the original values.
C1_PipeRoundTrip ==
  phase = "read" =>
    \A i \in 1 .. Len(rdLog) :
      rdLog[i].err = "none" /\ rdLog[i].val = wrLog[i].v

\* C3: a reader's read_bits(n) or read_bits_u128(n) of a valid width either
\* returns a value assembled from exactly n bits taken from the source or
\* fails with EndOfStream; it never returns a value built from fewer bits.
C3_NeverShort ==
  (rdLast.op \in ReaderReads /\ rdLast.err # "InvalidWidth") =>
    \/ Returned(rdLast) /\ rdLast.bits = rdLast.n
    \/ rdLast.err = "EndOfStream"

C8_ReaderTestValues ==
  (rdLast.op = "read_bits" /\ src.data = <<165, 90>>) =>
    LET at(q, w) == rdLast.k0 = q /\ rdLast.n = w
    IN /\ at(0, 1) => (Returned(rdLast) /\ rdLast.val = FromInt(1))
       /\ at(1, 3) => (Returned(rdLast) /\ rdLast.val = FromInt(2))
       /\ at(4, 4) => (Returned(rdLast) /\ rdLast.val = FromInt(5))
       /\ at(8, 8) => (Returned(rdLast) /\ rdLast.val = FromInt(90))

\* C10: whenever the reader's is_eof() answers true, no further bit can be
\* read: the buffer is consumed, the source has handed out all its bytes and
\* read_bits(1) fails with EndOfStream.
C10_EofOnlyWhenExhausted ==
  BitStreamReader_is_eof(rd, src).flag =>
    /\ rd.byte_pos >= rd.buffer_size
    /\ src.pos = Len(src.data)
    /\ rdBits = 8 * Len(src.data)
    /\ BitStreamReader_read_bits(rd, src, 1).err = "EndOfStream"

C10_Witness ==
  /\ rdLast.op = "is_eof"
  /\ rdLast.flag
  /\ Len(src.data) = 9
  /\ rdBits = 72

\* C11: when the reader's buffer is fully consumed and its exhaustion flag is
\* not yet set, is_eof() answers according to the source: true if the source
\* has no further bytes, false if it has some; so once successful reads have
\* taken exactly all bits of a finite source, is_eof() is true without a
\* failed read having happened first.
C11_EofProbesSource ==
  (/\ rdLast.op = "is_eof"
   /\ rdLast.pre.byte_pos >= rdLast.pre.buffer_size
   /\ ~rdLast.pre.eof)
    => (rdLast.flag <=> src.pos = Len(src.data))

\* C12: when flush() is called while the current byte is only partly
\* written, the bits of that byte which no write has written since the byte
\* was started (its low 8 - bit_pos bits) are zero in the byte delivered to
\* the sink, also after the buffer reached capacity, was flushed and reused.
C12_UnwrittenBitsZero ==
  (wrLast.op = "flush" /\ wrLast.pre.bit_pos > 0) =>
    /\ Len(sink) = Len(wrLast.preSink) + wrLast.pre.byte_pos + 1
    /\ sink[Len(sink)] % Pow2(8 - wrLast.pre.bit_pos) = 0

\* total width of the fields in a log
RECURSIVE LogBits(_, _)
LogBits(log, i) == IF i = 0 THEN 0 ELSE log[i].n + LogBits(log, i - 1)

\* the bytes a writer whose buffer never reaches capacity delivers for the
\* fields log[i..] followed by one flush()
RECURSIVE Unbuffered(_, _, _, _)
Unbuffered(log, i, s, out) ==
  IF i > Len(log) THEN BitStreamWriter_flush(s, out).sink
  ELSE LET r == IF log[i].n <= WORD
                  THEN BitStreamWriter_write_bits(s, out, log[i].v, log[i].n)
                  ELSE BitStreamWriter_write_bits_u128(s, out, log[i].v, log[i].n)
       IN Unbuffered(log, i + 1, r.s, r.sink)

\* C13: for every buffer capacity >= 1, after writes totalling B bits
\* followed by one flush() the sink has received exactly ceil(B/8) bytes;
\* the bytes filled before the flush arrive once each and in the order they
\* were filled, whatever capacity-triggered flushes happened on the way; and
\* when every field is 8 bits wide the sink bytes are the written values.
C13_EveryByteOnceInOrder ==
  (wrLast.op = "flush" /\ wrLast.flushes = 1) =>
    LET B == LogBits(wrLog, Len(wrLog))
        ref == Unbuffered(wrLog, 1, BitStreamWriter_init((B \div 8) + 1), << >>)
    IN /\ Len(sink) = (B + 7) \div 8
       /\ Len(ref) = (B + 7) \div 8
       /\ SubSeq(sink, 1, B \div 8) = SubSeq(ref, 1, B \div 8)
       /\ (\A i \in 1 .. Len(wrLog) : wrLog[i].n = 8) =>
            \A i \in 1 .. Len(wrLog) : sink[i] = wrLog[i].v[1]

C13_Witness ==
  /\ wrLast.op = "flush"
  /\ wrLast.flushes = 1
  /\ wr.buffer_size = 2
  /\ Len(wrLog) = 2
  /\ wrLog[1].n = 64
  /\ wrLog[2].n = 13
  /\ Len(sink) = 10

\* C14: flush() may be called any number of times: a flush() that directly
\* follows another flush() or the construction of the writer delivers no
\* bytes to the sink and leaves the cursor at the start of the buffer, so the
\* sink after k >= 1 consecutive flushes is the sink after one.
C14_FlushIdempotent ==
  (wrLast.op = "flush" /\ wrLast.prev \in {"flush", "init"}) =>
    /\ wrLast.err = "none"
    /\ sink = wrLast.preSink
    /\ wr.byte_pos = 0
    /\ wr.bit_pos = 0
    /\ wr = wrLast.pre

C14_Witness ==
  /\ wrLast.op = "flush"
  /\ wrLast.prev = "flush"
  /\ wrLast.flushes = 2
  /\ Len(wrLog) = 1
  /\ wrLog[1].n = 13
  /\ Len(sink) = 2

\* C15: write_bits(v, n) with the cursor at position p changes only bits
\* p..p+n-1 of the bit string: every bit stored before outside that range
\* keeps its value, bits of bytes added by growth outside the range are zero,
\* and length() becomes max(old length, p + n); no operation other than
\* from_bytes ever lowers length().
C15_WriteFrame ==
  /\ (bsLast.op = "write_bits" /\ Returned(bsLast)) =>
       LET p == BitStream_position(bsLast.pre)
           n == bsLast.n
           old == bsLast.pre.buffer
       IN /\ Len(bs.buffer) = Max(Len(old), (p + n + 7) \div 8)
          /\ \A i \in 0 .. (8 * Len(bs.buffer) - 1) :
               (i < p \/ i >= p + n) =>
                 BufferBit(bs.buffer, i) =
                   IF i < 8 * Len(old) THEN BufferBit(old, i) ELSE 0
          /\ BitStream_length(bs) = Max(BitStream_length(bsLast.pre), p + n)
  /\ bsLast.op \notin {"init", "from_bytes"} =>
       BitStream_length(bs) >= BitStream_length(bsLast.pre)

C15_Witness ==
  /\ bsLast.op = "write_bits"
  /\ Returned(bsLast)
  /\ Len(bsLast.pre.buffer) = 9
  /\ BitStream_position(bsLast.pre) = 3
  /\ bsLast.n = 3
  /\ bsLast.arg = Pat("ends", 3)
  /\ bs.buffer[1] = 247
  /\ BitStream_length(bs) = 72

\* C16: read_bit_value(n, is_signed) returns, for every n in 1..128 and every
\* bit pattern read, a BitValue whose bit_count is n and whose is_signed tag
\* equals the is_signed argument the caller passed, also when is_signed is
\* True and the pattern read has its top bit clear.
C16_TaggedAsRequested ==
  (bsLast.op = "read_bit_value" /\ Returned(bsLast)) =>
    /\ bsLast.bv.err = "none"
    /\ bsLast.bv.bit_count = bsLast.n
    /\ bsLast.bv.is_signed = bsLast.signed

\* value fits bit_count bits: for value >= 0 no bit at or above bit_count is
\* set (value <= 2^bit_count - 1); for value < 0 every bit at or above
\* bit_count - 1 is set (value >= -2^(bit_count - 1))
Fits(value, bit_count) ==
  IF IsNeg(value)
    THEN \A i \in (bit_count - 1) .. (8 * IntBytes - 1) : Bit(value, i) = 1
    ELSE \A i \in bit_count .. (8 * IntBytes - 1) : Bit(value, i) = 0

\* C17: BitValue(value, bit_count) with an explicit width succeeds exactly
\* when 1 <= bit_count <= 128 and the value fits; a width outside 1..128
\* fails with InvalidWidth whatever the value; an in-range width with a value
\* that does not fit fails with ValueOutOfRange (BitValue(256, 8) fails,
\* BitValue(255, 8) succeeds); every BitValue constructed satisfies the range
\* invariant of its signedness, with is_signed equal to (value < 0).
C17_ConstructorValidates ==
  bvLast.given =>
    LET v == bvLast.value
        w == bvLast.bit_count
        r == bvLast.made
    IN /\ r.err = (IF w < 1 \/ w > 128 THEN "InvalidWidth"
                   ELSE IF Fits(v, w) THEN "none" ELSE "ValueOutOfRange")
       /\ r.err = "none" =>
            /\ r.value = v
            /\ r.bit_count = w
            /\ r.is_signed = IsNeg(v)
            /\ Fits(r.value, r.bit_count)
       /\ (v = FromInt(256) /\ w = 8) => r.err = "ValueOutOfRange"
       /\ (v = FromInt(255) /\ w = 8) => r.err = "none"

C17_Witness ==
  /\ bvLast.given
  /\ bvLast.value = FromInt(256)
  /\ bvLast.bit_count = 8
  /\ bvLast.made.err = "ValueOutOfRange"

\* C18: BitValue(value) without a width uses the minimum number of bits that
\* represents the value: the width w it chooses (6 for 42, 7 for -42) is
\* accepted by the constructor's own range check, and no explicit width
\* smaller than w is accepted for the same value, negative or not.
C18_DefaultWidthMinimal ==
  (~bvLast.given /\ bvLast.made.err = "none") =>
    LET v == bvLast.value
        w == bvLast.made.bit_count
    IN /\ BitValue_init(v, w).err = "none"
       /\ \A u \in 1 .. (w - 1) : BitValue_init(v, u).err # "none"
       /\ v = FromInt(42) => w = 6
       /\ v = FromInt(-42) => w = 7

\* C19: set_position(p) succeeds exactly when p <= length(); on success
\* position() = p and is_eof() is true exactly when p = length(); for
\* p > length() it fails with EndOfStream and leaves the cursor where it
\* was; reset() sets position() to 0 and leaves length() unchanged.
C19_SetPosition ==
  /\ bsLast.op = "set_position" =>
       LET p == bsLast.n
       IN IF p <= BitStream_length(bsLast.pre)
            THEN /\ Returned(bsLast)
                 /\ BitStream_position(bs) = p
                 /\ BitStream_is_eof(bs) <=> (p = BitStream_length(bs))
                 /\ BitStream_length(bs) = BitStream_length(bsLast.pre)
                 /\ bs.buffer = bsLast.pre.buffer
            ELSE /\ bsLast.err = "EndOfStream"
                 /\ bs = bsLast.pre
  /\ bsLast.op = "reset" =>
       /\ Returned(bsLast)
       /\ BitStream_position(bs) = 0
       /\ BitStream_length(bs) = BitStream_length(bsLast.pre)
       /\ bs.buffer = bsLast.pre.buffer

C19_Witness ==
  /\ bsLast.op = "set_position"
  /\ bsLast.n = 16
  /\ BitStream_length(bsLast.pre) = 16
  /\ BitStream_position(bsLast.pre) = 3
  /\ Returned(bsLast)
  /\ BitStream_is_eof(bs)

\* C20: on BitStream, BitStreamReader and BitStreamWriter every 64-bit
\* operation called with n outside 1..64 and every 128-bit operation called
\* with n outside 1..128 fails with InvalidWidth; the width check comes
\* before the end-of-stream check (read_bits(0) and read_bits(65) on an empty
\* BitStream fail with InvalidWidth, not EndOfStream); the failing call
\* changes no cursor or buffer, requests nothing from the source and sends
\* nothing to the sink.
BadWidth(op, n) ==
  \/ op \in {"read_bits", "write_bits"} /\ n \notin 1 .. 64
  \/ op \in {"read_bits_u128", "write_bits_u128"} /\ n \notin 1 .. 128

C20_InvalidWidthFirst ==
  /\ BadWidth(bsLast.op, bsLast.n) =>
       (bsLast.err = "InvalidWidth" /\ bs = bsLast.pre)
  /\ BadWidth(rdLast.op, rdLast.n) =>
       (rdLast.err = "InvalidWidth" /\ rd = rdLast.pre /\ src = rdLast.preSrc)
  /\ BadWidth(wrLast.op, wrLast.n) =>
       (wrLast.err = "InvalidWidth" /\ wr = wrLast.pre /\ sink = wrLast.preSink)

C20_Witness ==
  /\ bsLast.op = "read_bits"
  /\ bsLast.n = 65
  /\ bsLast.pre = BitStream_init(<< >>)
  /\ bsLast.err = "InvalidWidth"
  /\ rdLast.op = "read_bits_u128"
  /\ rdLast.n = 129
  /\ rdLast.k0 = 3
  /\ wrLast.op = "write_bits"
  /\ wrLast.n = 0
  /\ wrLast.pre.bit_pos = 5

\* a reader that has taken k bits from its source by successful reads
RECURSIVE Advanced(_, _, _)
Advanced(r, from, k) ==
  IF k = 0 THEN [s |-> r, src |-> from]
  ELSE LET step == BitStreamReader_read_bits(r, from, Min(k, WORD))
       IN Advanced(step.s, step.src, k - Min(k, WORD))

\* what the call op(n) returns on a reader that holds all of data in one
\* buffer, filled by one request, after k bits have been taken from it
Whole(data, k, op, n) ==
  LET a == Advanced(BitStreamReader_init(Len(data) + 1),
                    Source(data, Len(data) + 1), k)
  IN IF op = "read_bits" THEN BitStreamReader_read_bits(a.s, a.src, n)
     ELSE BitStreamReader_read_bits_u128(a.s, a.src, n)

\* C21: what a sequence of read_bits / read_bits_u128 calls on a reader
\* returns (values and EndOfStream failures) depends only on the source's
\* bytes: it is the same for every buffer capacity >= 1 and for every way
\* the source splits its bytes across refill requests, no source bit being
\* skipped or delivered twice across a refill.
C21_BufferingInvisible ==
  rdLast.op \in ReaderReads =>
    \E w \in {Whole(src.data, rdLast.k0, rdLast.op, rdLast.n)} :
      /\ rdLast.err = w.err
      /\ rdLast.val = w.val
      /\ rdLast.bits = w.bits

C21_Witness ==
  /\ rdLast.op = "read_bits_u128"
  /\ rdLast.n = 65
  /\ rdLast.k0 = 3
  /\ rdLast.bits = 65
  /\ Len(src.data) = 9
  /\ Len(rd.buffer) = 2
  /\ src.chunk = 1

\* C22: a reader's exhaustion is permanent: once a refill request has
\* returned zero bytes (the exhaustion flag is set), the flag is never
\* cleared, every later read_bits / read_bits_u128 call fails with
\* EndOfStream without requesting bytes from the source again, and is_eof()
\* keeps returning true, even if the source has since gained more bytes.
C22_ExhaustionPermanent ==
  /\ rdLast.pre.eof =>
       /\ rd.eof
       /\ src.requests = rdLast.preSrc.requests
       /\ src.pos = rdLast.preSrc.pos
       /\ (rdLast.op \in ReaderReads /\ ~BadWidth(rdLast.op, rdLast.n)) =>
            (rdLast.err = "EndOfStream" /\ rdLast.bits = 0)
       /\ rdLast.op = "is_eof" => rdLast.flag
  /\ rd.eof => BitStreamReader_is_eof(rd, src).flag

C22_Witness ==
  /\ rdLast.pre.eof
  /\ rdLast.op = "read_bits_u128"
  /\ rdLast.n = 65
  /\ rdLast.err = "EndOfStream"
  /\ Len(rdLast.preSrc.data) = rdLast.preSrc.pos + 2
  /\ rdLast.preSrc.pos = 9

====
